---- MODULE Spec2Model ----
(***************************************************************************)
(* A model of groupBy (src/ps5.js, lines 16-40) over an explicit heap.     *)
(*                                                                         *)
(* JavaScript values are tagged records; objects and arrays live in the    *)
(* heap and are referred to by address, so that identity, sharing and      *)
(* mutation are visible.  The language operations groupBy relies on (typeof,*)
(* property access, Map with SameValueZero keys, Array.prototype.sort with *)
(* the default comparator, property assignment and the own-property        *)
(* enumeration order of ordinary objects) are modelled by what they do.    *)
(***************************************************************************)
EXTENDS Integers, Sequences, FiniteSets

\* Longest input array drawn by Init.
MaxLen == 3

----------------------------------------------------------------------------
(* Values *)

Undefined == [t |-> "undefined"]
Null == [t |-> "null"]
Num(n) == [t |-> "number", n |-> n]
\* A string is the sequence of its characters.
Str(s) == [t |-> "string", s |-> s]
\* A reference to the heap cell at address a (an object or an array).
Ref(a) == [t |-> "object", addr |-> a]
\* The function  r => r[p] .
FieldFn(p) == [t |-> "function", body |-> "field", p |-> p]
\* The function  r => v .
ConstFn(v) == [t |-> "function", body |-> "const", v |-> v]

\* typeof v
TypeOf(v) == IF v.t = "null" THEN "object" ELSE v.t

----------------------------------------------------------------------------
(* Strings: characters, code units, ordering, number formatting *)

Digits == <<"0", "1", "2", "3", "4", "5", "6", "7", "8", "9">>
Lower == <<"a", "b", "c", "d", "e", "f", "g", "h", "i", "j", "k", "l", "m",
           "n", "o", "p", "q", "r", "s", "t", "u", "v", "w", "x", "y", "z">>

IsDigit(c) == \E i \in 1..Len(Digits) : Digits[i] = c

\* The UTF-16 code unit of a character of the model's alphabet.
CodeUnit(c) ==
    IF c = "-" THEN 45
    ELSE IF IsDigit(c) THEN 47 + (CHOOSE i \in 1..Len(Digits) : Digits[i] = c)
    ELSE 96 + (CHOOSE i \in 1..Len(Lower) : Lower[i] = c)

\* a < b in the code-unit order that the default sort comparator and the
\* < operator use on strings.
RECURSIVE StrLess(_, _)
StrLess(a, b) ==
    IF b = <<>> THEN FALSE
    ELSE IF a = <<>> THEN TRUE
    ELSE IF CodeUnit(Head(a)) # CodeUnit(Head(b))
         THEN CodeUnit(Head(a)) < CodeUnit(Head(b))
    ELSE StrLess(Tail(a), Tail(b))

\* The decimal digits of a natural number.
RECURSIVE NatToString(_)
NatToString(n) ==
    IF n < 10 THEN <<Digits[n + 1]>>
    ELSE NatToString(n \div 10) \o <<Digits[(n % 10) + 1]>>

\* Number::toString for an integer.
NumberToString(n) == IF n < 0 THEN <<"-">> \o NatToString(-n) ELSE NatToString(n)

StrUndefined == <<"u", "n", "d", "e", "f", "i", "n", "e", "d">>
StrNull == <<"n", "u", "l", "l">>

\* ToString(v) for the primitive values.
ToString(v) ==
    CASE v.t = "undefined" -> StrUndefined
      [] v.t = "null" -> StrNull
      [] v.t = "number" -> NumberToString(v.n)
      [] v.t = "string" -> v.s

\* ToPropertyKey(v): the property name that obj[v] and obj[v] = x use.
ToPropertyKey(v) == ToString(v)

\* s is a canonical array index: the decimal form, without leading zeros, of
\* an integer in 0 .. 2^32 - 2.  Ten-digit strings are compared digit by digit
\* with the largest index.
MaxArrayIndex == <<"4", "2", "9", "4", "9", "6", "7", "2", "9", "4">>
IsArrayIndex(s) ==
    /\ Len(s) >= 1
    /\ \A i \in 1..Len(s) : IsDigit(s[i])
    /\ Len(s) > 1 => s[1] # "0"
    /\ Len(s) <= Len(MaxArrayIndex)
    /\ Len(s) = Len(MaxArrayIndex) => ~StrLess(MaxArrayIndex, s)

\* a < b as numbers, for two canonical array indices.
IndexLess(a, b) == Len(a) < Len(b) \/ (Len(a) = Len(b) /\ StrLess(a, b))

----------------------------------------------------------------------------
(* The heap: a sequence of cells, the address of a cell is its index *)

\* An ordinary object: its own properties in creation order.
ObjectCell(props) == [kind |-> "object", props |-> props]
ArrayCell(elems) == [kind |-> "array", elems |-> elems]

\* new: the heap with a fresh cell, whose address is Len(h) + 1.
Alloc(h, cell) == Append(h, cell)

HasOwn(props, key) == \E i \in 1..Len(props) : props[i].key = key

\* obj[p] for a reference obj to an ordinary object (no inherited properties
\* are modelled): the value of the property named ToPropertyKey(p), or
\* undefined when the object has none.
Get(h, obj, p) ==
    LET props == h[obj.addr].props
        key == ToPropertyKey(p)
    IN  IF HasOwn(props, key)
        THEN props[CHOOSE i \in 1..Len(props) : props[i].key = key].value
        ELSE Undefined

\* obj[key] = value on the property list of an ordinary object: an existing
\* property keeps its place and takes the new value, a new one is created
\* last.
PropsSet(props, key, value) ==
    IF HasOwn(props, key)
    THEN [i \in 1..Len(props) |->
            IF props[i].key = key THEN [key |-> key, value |-> value] ELSE props[i]]
    ELSE Append(props, [key |-> key, value |-> value])

\* Insert key k into the ascending sequence of array-index keys.
RECURSIVE InsertIndex(_, _)
InsertIndex(sorted, k) ==
    IF sorted = <<>> THEN <<k>>
    ELSE IF IndexLess(k, Head(sorted)) THEN <<k>> \o sorted
    ELSE <<Head(sorted)>> \o InsertIndex(Tail(sorted), k)

RECURSIVE SortIndices(_)
SortIndices(keys) ==
    IF keys = <<>> THEN <<>>
    ELSE InsertIndex(SortIndices(Tail(keys)), Head(keys))

\* The array-index keys among keys, in the order they have there.
RECURSIVE IndexKeys(_)
IndexKeys(keys) ==
    IF keys = <<>> THEN <<>>
    ELSE (IF IsArrayIndex(Head(keys)) THEN <<Head(keys)>> ELSE <<>>)
         \o IndexKeys(Tail(keys))

\* The other keys among keys, in the order they have there.
RECURSIVE NamedKeys(_)
NamedKeys(keys) ==
    IF keys = <<>> THEN <<>>
    ELSE (IF IsArrayIndex(Head(keys)) THEN <<>> ELSE <<Head(keys)>>)
         \o NamedKeys(Tail(keys))

\* The order in which an ordinary object enumerates its own string keys
\* (Object.keys, for-in): array indices in ascending numeric order, then the
\* other keys in creation order.
OwnKeys(props) ==
    LET keys == [i \in 1..Len(props) |-> props[i].key]
    IN  SortIndices(IndexKeys(keys)) \o NamedKeys(keys)

\* obj[key] = value, for a reference obj to an ordinary object.
Set(h, obj, key, value) ==
    [h EXCEPT ![obj.addr].props = PropsSet(@, ToPropertyKey(key), value)]

\* arr.unshift(value): the value goes first (a faulty variant of Push).
Unshift(h, arr, value) == [h EXCEPT ![arr.addr].elems = <<value>> \o @]

\* arr.push(value), for a reference arr to an array.
Push(h, arr, value) == [h EXCEPT ![arr.addr].elems = Append(@, value)]

----------------------------------------------------------------------------
(* Map: its entries in insertion order; keys are compared by SameValueZero, *)
(* which on the values of the model (no NaN, no -0) is equality.           *)

MapHas(m, k) == \E i \in 1..Len(m) : m[i].key = k

MapGet(m, k) ==
    IF MapHas(m, k) THEN m[CHOOSE i \in 1..Len(m) : m[i].key = k].value
    ELSE Undefined

MapSet(m, k, v) ==
    IF MapHas(m, k)
    THEN [i \in 1..Len(m) |-> IF m[i].key = k THEN [key |-> k, value |-> v] ELSE m[i]]
    ELSE Append(m, [key |-> k, value |-> v])

\* Array.from(m.keys())
MapKeys(m) == [i \in 1..Len(m) |-> m[i].key]

----------------------------------------------------------------------------
(* Array.prototype.sort() with no comparator *)

\* Every value compared as a string, undefined as "undefined" (a faulty
\* variant of SortBefore).
SortBeforeAsStrings(x, y) == StrLess(ToString(x), ToString(y))

\* x sorts strictly before y: undefined sorts after every other value, the
\* others are compared as strings.
SortBefore(x, y) ==
    IF x.t = "undefined" THEN FALSE
    ELSE IF y.t = "undefined" THEN TRUE
    ELSE StrLess(ToString(x), ToString(y))

\* x inserted after every element it does not sort strictly before.
RECURSIVE SortInsert(_, _)
SortInsert(sorted, x) ==
    IF sorted = <<>> THEN <<x>>
    ELSE IF SortBefore(x, Head(sorted)) THEN <<x>> \o sorted
    ELSE <<Head(sorted)>> \o SortInsert(Tail(sorted), x)

RECURSIVE SortInto(_, _)
SortInto(sorted, rest) ==
    IF rest = <<>> THEN sorted
    ELSE SortInto(SortInsert(sorted, Head(rest)), Tail(rest))

\* The sorted array; the sort is stable (ECMAScript 2019): elements that
\* compare equal keep their order.
ArraySort(a) == SortInto(<<>>, a)

----------------------------------------------------------------------------
(* groupBy(objects, property), src/ps5.js lines 16-40 *)

\* Only a string is taken for a field name; any other property is kept and
\* called (a faulty variant of Normalize).
NormalizeStringsOnly(property) ==
    IF TypeOf(property) = "string" THEN FieldFn(property) ELSE property

\* The wrapper reads obj.propName, the field named "propName" (a faulty
\* variant of Normalize).
NormalizeDot(property) ==
    IF TypeOf(property) # "function"
    THEN FieldFn(Str(<<"p", "r", "o", "p", "N", "a", "m", "e">>))
    ELSE property

\* Lines 19-22: a property that is not a function becomes the function that
\* returns obj[propName].
Normalize(property) ==
    IF TypeOf(property) # "function" THEN FieldFn(property) ELSE property

\* Line 26, property(object), raises a TypeError: property is not callable,
\* or it reads a property of undefined or null.
CallThrows(f, object) ==
    \/ TypeOf(f) # "function"
    \/ f.body = "field" /\ object.t \in {"undefined", "null"}

\* Line 26, the value of property(object) when it raises nothing.
CallValue(h, f, object) ==
    IF f.body = "field" THEN Get(h, object, f.p) ELSE f.v

\* Lines 28-30: make sure that the group exists.
EnsureGroup(st, groupName) ==
    IF ~MapHas(st.map, groupName)
    THEN [st EXCEPT !.heap = Alloc(st.heap, ArrayCell(<<>>)),
                    !.map = MapSet(st.map, groupName, Ref(Len(st.heap) + 1))]
    ELSE st

\* Lines 26-31: one iteration of the loop over objects.  st is the state of
\* the call: the heap, the Map groupedObjects and whether an error was raised.
LoopBody(st, f, object) ==
    IF CallThrows(f, object) THEN [st EXCEPT !.threw = TRUE]
    ELSE LET groupName == CallValue(st.heap, f, object)
             st1 == EnsureGroup(st, groupName)
         IN  [st1 EXCEPT !.heap = Push(st1.heap, MapGet(st1.map, groupName), object)]

\* while (objects.length) with object = objects.shift(): the loop consumes
\* the input array (a faulty variant of Loop).
RECURSIVE LoopShifting(_, _, _, _)
LoopShifting(st, f, objects, i) ==
    IF st.threw \/ st.heap[objects.addr].elems = <<>> THEN st
    ELSE LoopShifting(
            LoopBody([st EXCEPT !.heap[objects.addr].elems = Tail(@)], f,
                     Head(st.heap[objects.addr].elems)),
            f, objects, i + 1)

\* Lines 25-32: for (const object of objects), from index i on.
RECURSIVE Loop(_, _, _, _)
Loop(st, f, objects, i) ==
    IF st.threw \/ i > Len(st.heap[objects.addr].elems) THEN st
    ELSE Loop(LoopBody(st, f, st.heap[objects.addr].elems[i]), f, objects, i + 1)

\* Lines 36-38: result[key] = groupedObjects.get(key) for the keys from
\* index i on.
RECURSIVE Emit(_, _, _, _, _)
Emit(h, result, m, keys, i) ==
    IF i > Len(keys) THEN h
    ELSE Emit(Set(h, result, keys[i], MapGet(m, keys[i])), result, m, keys, i + 1)

\* The call groupBy(objects, property) on heap h: whether it threw, the
\* value it returned and the heap it left.
groupBy(h, objects, property) ==
    LET f == Normalize(property)
        st == Loop([heap |-> h, map |-> <<>>, threw |-> FALSE], f, objects, 1)
        result == Ref(Len(st.heap) + 1)
        keys == ArraySort(MapKeys(st.map))
    IN  IF st.threw
        THEN [threw |-> TRUE, value |-> Undefined, heap |-> st.heap]
        ELSE [threw |-> FALSE, value |-> result,
              heap |-> Emit(Alloc(st.heap, ObjectCell(<<>>)), result, st.map, keys, 1)]

----------------------------------------------------------------------------
(* Reading a result *)

\* The groups of the object at reference result, in the order the object
\* enumerates its keys: a sequence of [key, group], group the elements of
\* the array stored under key.
Groups(h, result) ==
    LET props == h[result.addr].props
        keys == OwnKeys(props)
    IN  [i \in 1..Len(keys) |->
            [key |-> keys[i],
             group |-> h[Get(h, result, Str(keys[i])).addr].elems]]

----------------------------------------------------------------------------
(* The calls: an input array of records is built, groupBy is called on it, *)
(* and then once more, on the same array, on the flattened result, with    *)
(* the accessor function in place of the field name, or on a permutation.  *)

VARIABLES
    heap,       \* the heap
    objects,    \* the reference to the input array
    property,   \* the property argument
    calls       \* the calls made so far, each with its arguments and outcome

\* The page (lines 42-239): its elements and module-level state, and the
\* requests in flight.
VARIABLES
    wordInput,          \* #word_input: its value
    rhymesClasses,      \* #show_rhymes: its btn-primary / btn-secondary classes
    synonymsClasses,    \* #show_synonyms: its btn-primary / btn-secondary classes
    wordOutput,         \* #word_output: its child nodes
    outputDescription,  \* #output_description: its content
    savedWordsArray,    \* the array savedWordsArray
    savedWords,         \* #saved_words: its text
    pending,            \* the requests fetched and not yet settled
    issued,             \* the number of requests issued so far
    errors,             \* the requests whose error console.error logged
    shown,              \* the request and response a callback rendered last
    lastIssuer,         \* the listener that issued the latest request
    lastClicked         \* the mode button clicked last

callVars == <<heap, objects, property, calls>>

pageVars ==
    <<wordInput, rhymesClasses, synonymsClasses, wordOutput, outputDescription,
      savedWordsArray, savedWords, pending, issued, errors, shown, lastIssuer,
      lastClicked>>

vars == <<callVars, pageVars>>

StrK == <<"k">>

\* The values a record may hold in its field k.
KeyVals ==
    {Num(-1), Num(2), Num(10), Str(<<"2">>), Str(<<"z">>), Str(StrUndefined)}

\* The record has no field k.
Absent == [t |-> "absent"]

\* The property arguments: a field name, the values that are neither a
\* field name nor a function, and two functions.
Properties == {Str(StrK), Null, Undefined, FieldFn(Str(StrK)), ConstFn(Num(0))}

\* A record: an object with a field k of value v, or with no field.
RecordCell(v) ==
    IF v = Absent THEN ObjectCell(<<>>)
    ELSE ObjectCell(<<[key |-> StrK, value |-> v]>>)

\* The heap holding one record per element of ks, at addresses 1..Len(ks),
\* and after them the array of the references to them, in this order.
InputHeap(ks) ==
    Append([i \in 1..Len(ks) |-> RecordCell(ks[i])],
           ArrayCell([i \in 1..Len(ks) |-> Ref(i)]))

Inputs == UNION {[1..n -> KeyVals \cup {Absent}] : n \in 0..MaxLen}

PrimaryClass == "btn-primary"
SecondaryClass == "btn-secondary"

\* The text of #saved_words after line 52.
StrNone == <<"(", "N", "o", "n", "e", ")">>

\* A text node.
TextNode(text) == [tag |-> "text", text |-> text]

\* No request has rendered anything.
NoRequest == [id |-> 0, callback |-> "none", word |-> <<>>, data |-> <<>>]

\* The request r with the decoded response data its callback rendered.
Rendered(r, data) ==
    [id |-> r.id, callback |-> r.callback, word |-> r.word, data |-> data]

\* The page as the script leaves it when it is loaded (lines 43-52): nothing
\* saved, #saved_words reading "(None)", no request made, and the elements as
\* the document gives them: the input with value word, the mode buttons with
\* classes rc and sc, the output elements empty.
PageLoaded(word, rc, sc) ==
    /\ wordInput = word
    /\ rhymesClasses = rc
    /\ synonymsClasses = sc
    /\ wordOutput = <<>>
    /\ outputDescription = [mode |-> "none", word |-> <<>>]
    /\ savedWordsArray = <<>>
    /\ savedWords = StrNone
    /\ pending = {}
    /\ issued = 0
    /\ errors = {}
    /\ shown = NoRequest
    /\ lastIssuer = "none"
    /\ lastClicked = "none"

\* The calls are made on a page nobody touches.
Init ==
    /\ \E ks \in Inputs :
         /\ heap = InputHeap(ks)
         /\ objects = Ref(Len(ks) + 1)
    /\ property \in Properties
    /\ calls = <<>>
    /\ PageLoaded(<<>>, {}, {})

\* The call groupBy(arr, prop), recorded as a call of the given kind.
Invoke(kind, h, arr, prop) ==
    LET r == groupBy(h, arr, prop)
    IN  /\ heap' = r.heap
        /\ calls' = Append(calls, [kind |-> kind, objects |-> arr, property |-> prop,
                                   threw |-> r.threw, value |-> r.value])
        /\ UNCHANGED <<objects, property>>
        /\ UNCHANGED pageVars

\* groupBy(objects, property)
Call ==
    /\ calls = <<>>
    /\ Invoke("first", heap, objects, property)

\* The same call once more.
CallAgain ==
    /\ Len(calls) = 1
    /\ Invoke("again", heap, objects, property)

\* The concatenation of the groups, in the order the result enumerates them.
RECURSIVE Flatten(_)
Flatten(groups) ==
    IF groups = <<>> THEN <<>>
    ELSE Head(groups).group \o Flatten(Tail(groups))

\* groupBy(flat, property), flat a new array holding the flattened result of
\* the first call.
Regroup ==
    /\ Len(calls) = 1
    /\ ~calls[1].threw
    /\ LET flat == Flatten(Groups(heap, calls[1].value))
       IN  Invoke("regroup", Alloc(heap, ArrayCell(flat)), Ref(Len(heap) + 1), property)

\* groupBy(objects, r => r[property]), for a field name property.
CallWithFunction ==
    /\ Len(calls) = 1
    /\ property.t = "string"
    /\ Invoke("function", heap, objects, FieldFn(property))

\* The permutations of 1..n other than the identity.
Shuffles(n) ==
    {p \in [1..n -> 1..n] :
        /\ \A i, j \in 1..n : p[i] = p[j] => i = j
        /\ \E i \in 1..n : p[i] # i}

\* groupBy(shuffled, property), shuffled a new array holding the elements of
\* objects in another order.
CallPermuted ==
    /\ Len(calls) = 1
    /\ LET elems == heap[objects.addr].elems
       IN  \E p \in Shuffles(Len(elems)) :
             Invoke("permuted",
                    Alloc(heap, ArrayCell([i \in 1..Len(elems) |-> elems[p[i]]])),
                    Ref(Len(heap) + 1), property)

Next == Call \/ CallAgain \/ Regroup \/ CallWithFunction \/ CallPermuted

Spec == Init /\ [][Next]_vars

----------------------------------------------------------------------------
(* Properties *)

\* The elements of the input array of call c.
InputOf(c) == heap[c.objects.addr].elems

\* The groups call c returned.
GroupsOf(c) == Groups(heap, c.value)

\* f(r): the key the selector of call c gives record r.
KeyOf(c, r) ==
    IF c.property.t = "function"
    THEN (IF c.property.body = "field" THEN Get(heap, r, c.property.p)
          ELSE c.property.v)
    ELSE Get(heap, r, c.property)

\* The calls that returned.
Returned == {i \in 1..Len(calls) : ~calls[i].threw}

RECURSIVE SumSizes(_)
SumSizes(groups) ==
    IF groups = <<>> THEN 0 ELSE Len(Head(groups).group) + SumSizes(Tail(groups))

Elems(seq) == {seq[i] : i \in 1..Len(seq)}

\* C1: the sizes of the groups of a result add up to the length of the
\* input: no record is dropped and none is duplicated.
C1_SumOfGroupSizes ==
    \A i \in Returned : SumSizes(GroupsOf(calls[i])) = Len(InputOf(calls[i]))

\* C2: every record of the input is in the group keyed by its key and in no
\* other group, and two records of one group have equal keys.
C2_Partition ==
    \A i \in Returned :
        LET c == calls[i]
            groups == GroupsOf(c)
        IN  /\ \A r \in Elems(InputOf(c)) :
                 /\ \E g \in 1..Len(groups) : r \in Elems(groups[g].group)
                 /\ \A g \in 1..Len(groups) :
                      r \in Elems(groups[g].group)
                          <=> groups[g].key = ToPropertyKey(KeyOf(c, r))
            /\ \A g \in 1..Len(groups) :
                 \A r1, r2 \in Elems(groups[g].group) : KeyOf(c, r1) = KeyOf(c, r2)

\* k1 is strictly below k2 in the default ordering of their common runtime
\* type: numeric for numbers, by code units for strings.  Keys of different
\* types, and undefined, are not ordered by it.
TypeOrdered(k1, k2) ==
    /\ k1.t = k2.t
    /\ k1.t \in {"number", "string"}

TypeLess(k1, k2) ==
    IF k1.t = "number" THEN k1.n < k2.n ELSE StrLess(k1.s, k2.s)

\* C3: the keys of a result, in the order the result enumerates them, are
\* strictly ascending in the default ordering of the keys' runtime type.
C3_KeysAscending ==
    \A i \in Returned :
        LET c == calls[i]
            groups == GroupsOf(c)
            keyAt(g) == KeyOf(c, groups[g].group[1])
        IN  \A g1, g2 \in 1..Len(groups) :
                g1 < g2 /\ TypeOrdered(keyAt(g1), keyAt(g2))
                    => TypeLess(keyAt(g1), keyAt(g2))

\* The index of record r in the sequence elems.
PosIn(elems, r) == CHOOSE i \in 1..Len(elems) : elems[i] = r

\* C4: in every group of a result the records are in the relative order
\* they have in the input.
C4_Stable ==
    \A i \in Returned :
        LET c == calls[i]
            groups == GroupsOf(c)
        IN  \A g \in 1..Len(groups) :
              /\ Elems(groups[g].group) \subseteq Elems(InputOf(c))
              /\ \A a, b \in 1..Len(groups[g].group) :
                    a < b => PosIn(InputOf(c), groups[g].group[a])
                                < PosIn(InputOf(c), groups[g].group[b])

\* C4's case: a returned group holds two records between which the input
\* has a record of another group.
C4_Witness ==
    \E i \in Returned :
        LET c == calls[i]
            groups == GroupsOf(c)
        IN  \E g \in 1..Len(groups) :
              /\ Len(groups[g].group) >= 2
              /\ \E r \in Elems(InputOf(c)) :
                    /\ r \notin Elems(groups[g].group)
                    /\ PosIn(InputOf(c), groups[g].group[1]) < PosIn(InputOf(c), r)
                    /\ PosIn(InputOf(c), r) < PosIn(InputOf(c), groups[g].group[2])

\* property is neither a function nor a field name: null or undefined.
Nullish(c) == c.property.t \in {"null", "undefined"}

\* C5 as stated: a call whose property is null or undefined fails with an
\* error and returns no result.
C5_InvalidSelectorThrows ==
    \A i \in 1..Len(calls) : Nullish(calls[i]) => calls[i].threw

\* C5 as amended: a call whose property is null or undefined raises no
\* error; the property is used as a field name, and the records, none of
\* which has a field of that name, all fall into the one group keyed
\* "undefined", in input order.
C5_NullishSelectorGroupsAll ==
    \A i \in 1..Len(calls) :
        Nullish(calls[i]) =>
            /\ ~calls[i].threw
            /\ GroupsOf(calls[i]) =
                  IF InputOf(calls[i]) = <<>> THEN <<>>
                  ELSE <<[key |-> StrUndefined, group |-> InputOf(calls[i])]>>

\* C5's case: groupBy was called with null or undefined on several records.
C5_Witness ==
    \E i \in 1..Len(calls) : Nullish(calls[i]) /\ Len(InputOf(calls[i])) >= 2

\* Record r has an own field named by the field name of call c.
HasField(c, r) == HasOwn(heap[r.addr].props, ToPropertyKey(c.property))

\* The records of the input of call c that have the field, and those that
\* lack it, each in input order.
Having(c) == LET Test(r) == HasField(c, r) IN SelectSeq(InputOf(c), Test)
Lacking(c) == LET Test(r) == ~HasField(c, r) IN SelectSeq(InputOf(c), Test)

\* The groups other than the one keyed key.
Without(groups, key) == LET Test(g) == g.key # key IN SelectSeq(groups, Test)

\* What groupBy returns for the records of the input of call c that have
\* the field, taken alone.
UsualGroups(c) ==
    LET r == groupBy(Alloc(heap, ArrayCell(Having(c))), Ref(Len(heap) + 1), c.property)
    IN  Groups(r.heap, r.value)

C7_RegroupIdentical ==
    \A i \in Returned :
        calls[i].kind = "regroup" => GroupsOf(calls[i]) = GroupsOf(calls[1])

\* The references to the group arrays of the result at reference result, in
\* heap h.
GroupArrays(h, result) ==
    {h[result.addr].props[j].value : j \in 1..Len(h[result.addr].props)}

\* A step leaves every cell of the heap as it was (the input array, the
\* records, the results of earlier calls and their groups), and what a call
\* returns is a mapping and group arrays that did not exist before the call
\* and are not its input array.
C8_Frame ==
    /\ Len(heap') >= Len(heap)
    /\ \A a \in 1..Len(heap) : heap'[a] = heap[a]
    /\ Len(calls') = Len(calls) + 1
    /\ LET c == calls'[Len(calls')]
       IN  ~c.threw =>
             /\ c.value.addr > Len(heap)
             /\ c.value # c.objects
             /\ heap'[c.value.addr].kind = "object"
             /\ \A arr \in GroupArrays(heap', c.value) :
                   arr.addr > Len(heap) /\ arr # c.objects

\* C8: groupBy has no side effects: a call changes nothing that existed
\* before it and returns a mapping made for that call.
C8_NoSideEffects == [][C8_Frame]_vars

\* C8's case: groupBy was called twice on the same non-empty array.
C8_Witness ==
    /\ Len(calls) = 2
    /\ calls[2].kind = "again"
    /\ Len(GroupsOf(calls[1])) >= 2
    /\ GroupsOf(calls[2]) = GroupsOf(calls[1])
    /\ calls[2].value # calls[1].value

\* C9: the call with the function r => r[p] agrees with the call with the
\* field name p: the same keys in the same order, the same records in each
\* group.
C9_FieldNameAsFunction ==
    \A i \in 1..Len(calls) :
        calls[i].kind = "function" =>
            /\ calls[i].threw = calls[1].threw
            /\ ~calls[i].threw
            /\ GroupsOf(calls[i]) = GroupsOf(calls[1])

\* C9's case: both calls were made and returned several groups.
C9_Witness ==
    \E i \in 1..Len(calls) :
        /\ calls[i].kind = "function"
        /\ calls[1].property.t = "string"
        /\ Len(GroupsOf(calls[i])) >= 2

Keys(groups) == [g \in 1..Len(groups) |-> groups[g].key]

\* C10: the result for a permutation of the input has the same keys in the
\* same order, and each group holds the same records.
C10_OrderIndependent ==
    \A i \in Returned :
        calls[i].kind = "permuted" =>
            LET g1 == GroupsOf(calls[1])
                g2 == GroupsOf(calls[i])
            IN  /\ Keys(g2) = Keys(g1)
                /\ \A g \in 1..Len(g1) :
                      /\ Len(g2[g].group) = Len(g1[g].group)
                      /\ Elems(g2[g].group) = Elems(g1[g].group)

\* C11: a result has exactly one group for each distinct key value of the
\* input (none for the empty input, one holding all records in input order
\* when all records share one key).
C11_OneGroupPerKey ==
    \A i \in Returned :
        LET c == calls[i]
            keys == {KeyOf(c, r) : r \in Elems(InputOf(c))}
        IN  /\ Len(GroupsOf(c)) = Cardinality(keys)
            /\ Cardinality(keys) = 1 => GroupsOf(c)[1].group = InputOf(c)

----------------------------------------------------------------------------
(* The page, src/ps5.js lines 42-239 *)

\* Most requests issued, most words saved.
MaxRequests == 2
MaxSaved == 2

\* The values the user gives #word_input: a word, or nothing.
InputWords == {<<"c", "a", "t">>, <<>>}

\* The i-th word of a response: w1, w2, ...
ResultWord(i) == <<"w">> \o NatToString(i)

StrWord == <<"w", "o", "r", "d">>
StrNumSyllables == <<"n", "u", "m", "S", "y", "l", "l", "a", "b", "l", "e", "s">>

\* The class sets the document may give a mode button.
ClassSets == SUBSET {PrimaryClass, SecondaryClass}

\* The decoded responses to a rhyme request: arrays of entries
\* {word, numSyllables}, each as the sequence of its syllable counts: no
\* entry, one word of one or of two syllables, two words of one and three or
\* of two and one syllables.
RhymeResponses == {<<>>, <<1>>, <<2>>, <<1, 3>>, <<2, 1>>}

\* The decoded responses to a synonym request: arrays of entries {word},
\* each as the sequence of its words: no entry, one word, two words.
SimilarResponses == {<<>>, <<ResultWord(1)>>, <<ResultWord(1), ResultWord(2)>>}

\* The heap a decoded rhyme response makes: one object {word, numSyllables}
\* per entry and the array of them, at address Len(data) + 1.
ResponseHeap(data) ==
    Append([i \in 1..Len(data) |->
               ObjectCell(<<[key |-> StrWord, value |-> Str(ResultWord(i))],
                            [key |-> StrNumSyllables, value |-> Num(data[i])]>>)],
           ArrayCell([i \in 1..Len(data) |-> Ref(i)]))

\* The nodes of #word_output.
Loading == <<TextNode("Loading")>>
NoResults == <<[tag |-> "p", text |-> "No results"]>>
Heading(i) == [tag |-> "h3", text |-> "Syllables: ", n |-> i]
\* A list item showing word, with its (Save) button.
Item(word) == [tag |-> "li", word |-> word]

\* Lines 141-145: for (group in groups[i]): the items of the words of the
\* array groups[i]; nothing when groups[i] is undefined.
GroupItems(h, groups, i) ==
    LET arr == Get(h, groups, Num(i))
    IN  IF arr.t = "undefined" THEN <<>>
        ELSE [j \in 1..Len(h[arr.addr].elems) |->
                 Item(Get(h, h[arr.addr].elems[j], Str(StrWord)).s)]

\* Lines 139-147: the headings and items for i from i to last.
RECURSIVE SyllableSections(_, _, _, _)
SyllableSections(h, groups, i, last) ==
    IF i > last THEN <<>>
    ELSE <<Heading(i)>> \o GroupItems(h, groups, i)
         \o SyllableSections(h, groups, i + 1, last)

\* Lines 135-156 of rhymeCallBack: what it puts into the emptied
\* #word_output for the decoded response data.
RhymeNodes(data) ==
    IF Len(data) # 0
    THEN LET r == groupBy(ResponseHeap(data), Ref(Len(data) + 1), Str(StrNumSyllables))
         IN  SyllableSections(r.heap, r.value, 1,
                              Len(OwnKeys(r.heap[r.value.addr].props)))
    ELSE NoResults

\* Lines 178-206 of similarCallBack: what it puts into the emptied
\* #word_output for the decoded response data.
SimilarNodes(data) ==
    IF Len(data) # 0 THEN [i \in 1..Len(data) |-> Item(data[i])]
    ELSE NoResults

\* Lines 92-94 and 105-107: the URL is built from the value of the input, the
\* argument is not used.
DatamuseUrl(argument, inputValue) == inputValue

\* arr.join(): the elements separated by commas.
RECURSIVE Join(_)
Join(arr) ==
    IF arr = <<>> THEN <<>>
    ELSE IF Len(arr) = 1 THEN arr[1]
    ELSE arr[1] \o <<",">> \o Join(Tail(arr))

\* The text is not reset first (a faulty variant of AddToSavedWords).
AddToSavedWordsNoReset(array, text, word) ==
    [array |-> Append(array, word), text |-> text \o Join(Append(array, word))]

\* Lines 118-124, addToSavedWords(word): the array and the text of
\* #saved_words after it.
AddToSavedWords(array, text, word) ==
    [array |-> Append(array, word), text |-> <<" ">> \o Join(Append(array, word))]

\* The rhymes button keeps btn-secondary (a faulty variant of
\* ClickRhymesClasses).
ClickRhymesClassesKeeping(rc, sc) ==
    [rhymes |-> rc \cup {PrimaryClass},
     synonyms |-> (sc \ {PrimaryClass}) \cup {SecondaryClass}]

\* Lines 163-166: the classes of the two buttons after a click on #show_rhymes.
ClickRhymesClasses(rc, sc) ==
    [rhymes |-> (rc \ {SecondaryClass}) \cup {PrimaryClass},
     synonyms |-> (sc \ {PrimaryClass}) \cup {SecondaryClass}]

\* Lines 213-216: the classes of the two buttons after a click on
\* #show_synonyms.
ClickSynonymsClasses(rc, sc) ==
    [rhymes |-> (rc \cup {SecondaryClass}) \ {PrimaryClass},
     synonyms |-> (sc \cup {PrimaryClass}) \ {SecondaryClass}]

\* Enter always asks for rhymes (a faulty variant of EnterRequests).
EnterRequestsRhymes(key, rc, sc) ==
    IF key = "Enter" THEN <<"rhyme">> ELSE <<>>

\* Lines 223-235: the callbacks of the requests a keydown of key makes, in
\* the order it makes them.
EnterRequests(key, rc, sc) ==
    IF key = "Enter"
    THEN (IF PrimaryClass \in sc THEN <<"similar">> ELSE <<>>)
         \o (IF PrimaryClass \in rc THEN <<"rhyme">> ELSE <<>>)
    ELSE <<>>

\* The requests that fetch makes for the callbacks cbs, numbered after the n
\* requests made before; each is for the word its URL names.
Fetches(cbs, n, word) ==
    {[id |-> n + i, callback |-> cbs[i], word |-> word] : i \in 1..Len(cbs)}

\* Lines 68-81, datamuseRequest(url, callback), once for each callback of
\* cbs: #word_output reads "Loading" and the request is in flight.
\* by is the listener that makes the requests.
Issue(cbs, by) ==
    /\ issued + Len(cbs) <= MaxRequests
    /\ pending' = pending \cup Fetches(cbs, issued, DatamuseUrl(wordInput, wordInput))
    /\ lastIssuer' = IF cbs = <<>> THEN lastIssuer ELSE by
    /\ issued' = issued + Len(cbs)
    /\ wordOutput' = IF cbs = <<>> THEN wordOutput ELSE Loading

\* The page is loaded; the call variables are not used.
PageInit ==
    /\ heap = <<>>
    /\ objects = Undefined
    /\ property = Undefined
    /\ calls = <<>>
    /\ \E rc \in ClassSets, sc \in ClassSets : PageLoaded(<<>>, rc, sc)

\* The user changes the value of #word_input.
Type ==
    /\ \E w \in InputWords : w # wordInput /\ wordInput' = w
    /\ UNCHANGED <<rhymesClasses, synonymsClasses, wordOutput, outputDescription,
                   savedWordsArray, savedWords, pending, issued, errors, shown,
                   lastClicked, lastIssuer>>
    /\ UNCHANGED callVars

\* Lines 161-169: a click on #show_rhymes.
ClickRhymes ==
    /\ LET c == ClickRhymesClasses(rhymesClasses, synonymsClasses)
       IN  rhymesClasses' = c.rhymes /\ synonymsClasses' = c.synonyms
    /\ Issue(<<"rhyme">>, "click")
    /\ lastClicked' = "rhymes"
    /\ UNCHANGED <<wordInput, outputDescription, savedWordsArray, savedWords,
                   errors, shown>>
    /\ UNCHANGED callVars

\* Lines 211-219: a click on #show_synonyms.
ClickSynonyms ==
    /\ LET c == ClickSynonymsClasses(rhymesClasses, synonymsClasses)
       IN  rhymesClasses' = c.rhymes /\ synonymsClasses' = c.synonyms
    /\ Issue(<<"similar">>, "click")
    /\ lastClicked' = "synonyms"
    /\ UNCHANGED <<wordInput, outputDescription, savedWordsArray, savedWords,
                   errors, shown>>
    /\ UNCHANGED callVars

\* The keys of a keydown event: Enter and some other key.
Keys_ == {"Enter", "a"}

\* Lines 221-239: a keydown in #word_input.
KeyDown ==
    /\ \E key \in Keys_ :
         Issue(EnterRequests(key, rhymesClasses, synonymsClasses), "keydown")
    /\ UNCHANGED <<wordInput, rhymesClasses, synonymsClasses, outputDescription,
                   savedWordsArray, savedWords, errors, shown, lastClicked>>
    /\ UNCHANGED callVars

\* Lines 74-77 with rhymeCallBack (lines 130-158): the response to a rhyme
\* request arrives and decodes to data.
RhymeResponse ==
    /\ \E r \in pending :
         /\ r.callback = "rhyme"
         /\ \E data \in RhymeResponses :
              /\ wordOutput' = RhymeNodes(data)
              /\ shown' = Rendered(r, data)
         /\ outputDescription' = [mode |-> "rhyme", word |-> wordInput]
         /\ pending' = pending \ {r}
    /\ UNCHANGED <<wordInput, rhymesClasses, synonymsClasses, savedWordsArray,
                   savedWords, issued, errors, lastClicked, lastIssuer>>
    /\ UNCHANGED callVars

\* Lines 74-77 with similarCallBack (lines 173-209): the response to a
\* synonym request arrives and decodes to data.
SimilarResponse ==
    /\ \E r \in pending :
         /\ r.callback = "similar"
         /\ \E data \in SimilarResponses :
              /\ wordOutput' = SimilarNodes(data)
              /\ shown' = Rendered(r, data)
         /\ outputDescription' = [mode |-> "similar", word |-> wordInput]
         /\ pending' = pending \ {r}
    /\ UNCHANGED <<wordInput, rhymesClasses, synonymsClasses, savedWordsArray,
                   savedWords, issued, errors, lastClicked, lastIssuer>>
    /\ UNCHANGED callVars

\* Lines 78-80: the fetch of a request, or the decoding of its response,
\* fails, and console.error logs the error.
RequestFails ==
    /\ \E r \in pending :
         /\ pending' = pending \ {r}
         /\ errors' = errors \cup {r.id}
    /\ UNCHANGED <<wordInput, rhymesClasses, synonymsClasses, wordOutput,
                   outputDescription, savedWordsArray, savedWords, issued, shown,
                   lastClicked, lastIssuer>>
    /\ UNCHANGED callVars

\* Lines 143 and 192-194: a click on the (Save) button of a list item.
ClickSave ==
    /\ Len(savedWordsArray) < MaxSaved
    /\ \E i \in 1..Len(wordOutput) :
         /\ wordOutput[i].tag = "li"
         /\ LET a == AddToSavedWords(savedWordsArray, savedWords, wordOutput[i].word)
            IN  savedWordsArray' = a.array /\ savedWords' = a.text
    /\ UNCHANGED <<wordInput, rhymesClasses, synonymsClasses, wordOutput,
                   outputDescription, pending, issued, errors, shown, lastClicked, lastIssuer>>
    /\ UNCHANGED callVars

PageNext ==
    \/ Type
    \/ ClickRhymes
    \/ ClickSynonyms
    \/ KeyDown
    \/ RhymeResponse
    \/ SimilarResponse
    \/ RequestFails
    \/ ClickSave

PageSpec == PageInit /\ [][PageNext]_vars

----------------------------------------------------------------------------
(* Properties of the page *)

\* Results are displayed: a callback has rendered a response and no request
\* made since has put "Loading" in its place.
ResultsDisplayed == shown.id # 0 /\ wordOutput # Loading

\* The positions of the list items showing word in #word_output.
ItemsOf(word) ==
    {p \in 1..Len(wordOutput) :
        wordOutput[p].tag = "li" /\ wordOutput[p].word = word}

\* The positions of the headings of #word_output.
Headings == {p \in 1..Len(wordOutput) : wordOutput[p].tag = "h3"}

\* The heading the node at position p is under: the last one before it, 0
\* when there is none.
HeadingOver(p) ==
    IF \E q \in Headings : q < p
    THEN CHOOSE q \in Headings : q < p /\ \A o \in Headings : o < p => o <= q
    ELSE 0

\* C12: when rhymeCallBack has rendered a non-empty response, every word of
\* the response is exactly one list item, under the heading "Syllables: n"
\* of its own numSyllables, and every heading is for a syllable count that
\* some word of the response has.
C12_EveryWordUnderItsHeading ==
    (ResultsDisplayed /\ shown.callback = "rhyme" /\ shown.data # <<>>) =>
        /\ \A i \in 1..Len(shown.data) :
              /\ Cardinality(ItemsOf(ResultWord(i))) = 1
              /\ \A p \in ItemsOf(ResultWord(i)) :
                    /\ HeadingOver(p) # 0
                    /\ wordOutput[HeadingOver(p)].n = shown.data[i]
        /\ \A q \in Headings :
              \E i \in 1..Len(shown.data) : shown.data[i] = wordOutput[q].n

\* The text of #saved_words is "(None)" while nothing is saved, and then a
\* space followed by the comma-join of savedWordsArray.
SavedWordsText ==
    /\ savedWords = (IF savedWordsArray = <<>> THEN StrNone
                     ELSE <<" ">> \o Join(savedWordsArray))
    /\ savedWords = StrNone <=> savedWordsArray = <<>>

\* A step leaves savedWordsArray alone or appends the word of a list item of
\* #word_output to it; a step that changes #saved_words is such an append.
SavedWordsGrow ==
    /\ \/ savedWordsArray' = savedWordsArray
       \/ \E p \in 1..Len(wordOutput) :
             /\ wordOutput[p].tag = "li"
             /\ savedWordsArray' = Append(savedWordsArray, wordOutput[p].word)
    /\ savedWords' # savedWords => savedWordsArray' # savedWordsArray

\* C13: savedWordsArray only grows, by appending the word whose Save button
\* is clicked (duplicates kept, nothing removed or reordered), and
\* #saved_words reads "(None)" before the first save and, from then on, a
\* space followed by the comma-join of the whole array.
C13_SavedWordsInClickOrder == []SavedWordsText /\ [][SavedWordsGrow]_vars

\* The same word was saved twice.
C13_Witness ==
    /\ Len(savedWordsArray) = 2
    /\ savedWordsArray[1] = savedWordsArray[2]
    /\ savedWords = <<" ">> \o savedWordsArray[1] \o <<",">> \o savedWordsArray[2]

\* C14: once every request made has had its response delivered, #word_output
\* and #output_description show the results of the request issued last.
C14_LatestRequestShown ==
    (issued > 0 /\ pending = {} /\ errors = {}) =>
        /\ shown.id = issued
        /\ outputDescription.mode = shown.callback

\* C15: the callback is never invoked for a request that failed, and after a
\* failure #word_output keeps reading "Loading" until the response of a
\* request made later than the failed one replaces it.
C15_LoadingKeptAfterFailure ==
    \A f \in errors :
        /\ shown.id # f
        /\ wordOutput = Loading \/ shown.id > f

\* After a click on a mode button, the button clicked last has btn-primary
\* and not btn-secondary, the other btn-secondary and not btn-primary.
LastClickedIsPrimary ==
    /\ lastClicked = "rhymes" =>
          rhymesClasses = {PrimaryClass} /\ synonymsClasses = {SecondaryClass}
    /\ lastClicked = "synonyms" =>
          synonymsClasses = {PrimaryClass} /\ rhymesClasses = {SecondaryClass}

\* A step that makes no request (a response or a failure arriving, a word
\* being saved, the input changing) leaves the classes of both buttons alone.
ClassesKept ==
    issued' = issued => UNCHANGED <<rhymesClasses, synonymsClasses>>

\* C16: once a mode button has been clicked, the one clicked last carries
\* btn-primary and the other btn-secondary, neither carries both, and a
\* response arriving or a word being saved does not change the classes.
C16_ModeButtonClasses == []LastClickedIsPrimary /\ [][ClassesKept]_vars

\* Rhymes was clicked last, after a synonym response was rendered and a word
\* of it saved.
C16_Witness ==
    /\ lastClicked = "rhymes"
    /\ shown.callback = "similar"
    /\ savedWordsArray # <<>>
    /\ rhymesClasses = {PrimaryClass}

\* The callback of the mode whose button carries btn-primary, when exactly
\* one does.
PrimaryMode ==
    IF PrimaryClass \in rhymesClasses THEN "rhyme" ELSE "similar"

\* What a keydown would make in the current state: for Enter after a click,
\* one request of the primary mode; for Enter when neither button has
\* btn-primary, none; for another key, none.
EnterDecision ==
    \A key \in Keys_ :
        LET cbs == EnterRequests(key, rhymesClasses, synonymsClasses)
        IN  /\ key # "Enter" => cbs = <<>>
            /\ (key = "Enter" /\ lastClicked # "none") => cbs = <<PrimaryMode>>
            /\ (PrimaryClass \notin rhymesClasses \cup synonymsClasses) =>
                  cbs = <<>>

\* A keydown step that makes a request after a click makes exactly one, of
\* the primary mode, for the value of the input.
EnterEffect ==
    (KeyDown /\ lastClicked # "none") =>
        /\ issued' = issued + 1
        /\ pending' = pending \cup
              {[id |-> issued', callback |-> PrimaryMode, word |-> wordInput]}
        /\ wordOutput' = Loading

\* C17: once a mode button has been clicked, Enter makes exactly one
\* request, of the mode whose button carries btn-primary; Enter makes none
\* when neither button carries btn-primary, and another key makes none.
C17_EnterIssuesPrimaryMode == []EnterDecision /\ [][EnterEffect]_vars

\* Enter made the last request, a synonym request, after a click.
C17_Witness ==
    /\ lastIssuer = "keydown"
    /\ lastClicked = "synonyms"
    /\ \E r \in pending : r.id = issued /\ r.callback = "similar"

\* C18: whenever results are displayed, the word named in
\* #output_description is the word the displayed results were fetched for.
C18_DescriptionNamesFetchedWord ==
    ResultsDisplayed => outputDescription.word = shown.word

====
